---- MODULE Spec2Model ----
(***************************************************************************)
(* A model of MetaScrub's scrub orchestration engine: CoreScrubber         *)
(* (scrubmeta/core.py), FileDiscovery and OutputManager                    *)
(* (scrubmeta/utils/file_utils.py) and the four scrubbers                  *)
(* (scrubmeta/scrubbers/*.py), over a small filesystem.                    *)
(*                                                                         *)
(* A path is a record [dir, stem, ext]: dir is the sequence of directory   *)
(* names, stem and ext are what pathlib calls Path.stem and Path.suffix.   *)
(* A file's content is a record [kind, of]: "orig" is an input as the user *)
(* left it, "old" a file that was in the output directory before the run,  *)
(* "empty" a fresh temporary file, "partial" a half written file and       *)
(* "clean" the complete cleaned copy of the input `of`.                    *)
(***************************************************************************)
EXTENDS Naturals, Sequences, FiniteSets, TLC

\* The largest number of files the input directory holds.
MaxFiles == 2

VARIABLES
    run,        \* the arguments of scrub_path and the environment of the run
    fs,         \* the files of the filesystem: path -> content
    dirs,       \* the directories that exist
    pc,         \* where scrub_path is
    files,      \* core.py:141  files
    results,    \* core.py:179  results
    cnt,        \* core.py:180  success, skipped, errors
    cancelled,  \* core.py:181  cancelled
    token,      \* core.py:30   CancelToken._cancelled
    summary,    \* the ScrubSummary passed to on_done and returned
    idx,        \* core.py:183  index of the file being processed
    outPath,    \* core.py:191  output_path of the file being processed
    tmpPath,    \* the scrubbers' tmp_path / tmp_output
    pending,    \* the ScrubResult the running scrub call is about to return
    raisedIn,   \* which call an exception escaped scrub_path from
    obs         \* observations of the run, read by the properties only

vars == <<run, fs, dirs, pc, files, results, cnt, cancelled, token, summary,
          idx, outPath, tmpPath, pending, raisedIn, obs>>

None == "None"

----------------------------------------------------------------------------
(* Paths and the input tree *)

P(d, s, e) == [dir |-> d, stem |-> s, ext |-> e]

\* No path: Python's None where a path is optional.
NoPath == P(<< >>, "", "")

InRoot == <<"in">>

\* The files an input directory may hold, in the order sorted() gives them
\* (file_utils.py:48): pathlib compares paths part by part.
TreeOrder ==
    << P(<<"in">>, "a", ".png"),
       P(<<"in">>, "b", ".pdf"),
       P(<<"in">>, "c", ".docx"),
       P(<<"in">>, "d", ".MP3"),
       P(<<"in">>, "n", ".txt"),
       P(<<"in", "sub">>, "a", ".png") >>

Tree == { TreeOrder[i] : i \in 1..Len(TreeOrder) }

\* The files an input directory is populated from; the other files of the tree
\* are given to scrub_path as single files.
DirTree == { p \in Tree : p.ext \in { ".png", ".MP3", ".txt" } }

\* The output directories of a run: apart from the input, the input directory
\* itself, and a subdirectory of the input.
OutRoots == { <<"out">>, <<"in">>, <<"in", "sub">> }

\* A file that is in the output directory before the run.
OldFile == P(<<"out">>, "a", ".png")

IsPrefix(s, t) == Len(s) <= Len(t) /\ SubSeq(t, 1, Len(s)) = s

\* A directory and all its ancestors: what mkdir(parents=True) creates.
Parents(d) == { SubSeq(d, 1, k) : k \in 1..Len(d) }

Orig(p) == [kind |-> "orig", of |-> p]
Old(p) == [kind |-> "old", of |-> p]
Empty(p) == [kind |-> "empty", of |-> p]
Partial(p) == [kind |-> "partial", of |-> p]
Clean(p) == [kind |-> "clean", of |-> p]

\* The content of a path that holds no file.
Absent == [kind |-> "absent", of |-> NoPath]

Content(f, p) == IF p \in DOMAIN f THEN f[p] ELSE Absent

Exists(f, p) == p \in DOMAIN f

\* f with path p holding content c.
Put(f, p, c) == [q \in (DOMAIN f) \cup {p} |-> IF q = p THEN c ELSE f[q]]

\* f without path p.
Remove(f, p) == [q \in (DOMAIN f) \ {p} |-> f[q]]

----------------------------------------------------------------------------
(* Results *)

Result(type, inp, out, cat, reason, hint) ==
    [result_type |-> type, input_path |-> inp, output_path |-> out,
     error_category |-> cat, reason |-> reason, fix_hint |-> hint]

\* result.py:16-23  ErrorCategory
ErrorCategories ==
    { "INPUT_ERROR", "PERMISSION_ERROR", "DEPENDENCY_ERROR", "PROCESSING_ERROR",
      "OUTPUT_ERROR", "CANCELLED" }

\* An Error result built without a remediation hint.
ErrorResult_NoHint(inp, cat) == Result("ERROR", inp, NoPath, cat, None, None)

\* The Error results of core.py and of the scrubbers: each is built with an
\* error_category and a fix_hint that is a non-empty string.
ErrorResult(inp, cat) == Result("ERROR", inp, NoPath, cat, None, "hint")

\* No result yet.
NoResult == Result(None, NoPath, NoPath, None, None, None)

Summary(total, c, canc) ==
    [total |-> total, success |-> c.success, skipped |-> c.skipped,
     errors |-> c.errors, cancelled |-> canc]

ZeroCnt == [success |-> 0, skipped |-> 0, errors |-> 0]

\* No summary yet.
NoSummary == [total |-> 0, success |-> 0, skipped |-> 0, errors |-> 0,
              cancelled |-> FALSE]

\* The summary of the four short-circuits of validation and scanning.
ShortSummary == [total |-> 0, success |-> 0, skipped |-> 0, errors |-> 1,
                 cancelled |-> FALSE]

----------------------------------------------------------------------------
(* FileDiscovery (file_utils.py) *)

\* An allow-list that lets text files through.
SUPPORTED_EXTENSIONS_WithTxt ==
    { ".jpg", ".jpeg", ".png", ".webp", ".pdf", ".docx", ".xlsx", ".pptx",
      ".mp4", ".mov", ".mkv", ".avi", ".m4v", ".webm", ".mpg", ".mpeg",
      ".mp3", ".wav", ".flac", ".m4a", ".aac", ".ogg", ".opus", ".txt" }

SUPPORTED_EXTENSIONS ==
    { ".jpg", ".jpeg", ".png", ".webp", ".pdf", ".docx", ".xlsx", ".pptx",
      ".mp4", ".mov", ".mkv", ".avi", ".m4v", ".webm", ".mpg", ".mpeg",
      ".mp3", ".wav", ".flac", ".m4a", ".aac", ".ogg", ".opus" }

\* str.lower() on the suffixes of the tree: d.MP3 is the one file whose
\* suffix is not in lower case already.
Lower(e) == IF e = ".MP3" THEN ".mp3" ELSE e

\* An allow-list test that compares the suffix as it is written.
is_supported_CaseSensitive(p) == p.ext \in SUPPORTED_EXTENSIONS

\* file_utils.py:50-53: path.suffix.lower() in SUPPORTED_EXTENSIONS.
is_supported(p) == Lower(p.ext) \in SUPPORTED_EXTENSIONS

\* glob("*") gives the children of root, glob("**/*") the whole subtree.
Globbed(root, recursive, p) ==
    IF recursive THEN IsPrefix(root, p.dir) ELSE p.dir = root

\* discover_files on a directory: the supported files the glob yields, sorted.
DiscoverDir(f, root, recursive) ==
    LET keep(p) == Exists(f, p) /\ Globbed(root, recursive, p) /\ is_supported(p)
    IN  SelectSeq(TreeOrder, keep)

\* discover_files: a single file is returned whatever its extension.
discover_files(f, r) ==
    IF r.kind = "file" THEN <<r.input_path>>
    ELSE DiscoverDir(f, r.input_path, r.recursive)

----------------------------------------------------------------------------
(* OutputManager (file_utils.py) *)

\* get_output_path called without a base_input_dir.
NoBase == << >>

\* A get_output_path that always flattens.
Target_Flat(r, file, base) == P(r.output_dir, file.stem, file.ext)

\* The path get_output_path computes before collision handling.
Target(r, file, base) ==
    IF r.keep_structure /\ base # NoBase
    THEN P(r.output_dir \o SubSeq(file.dir, Len(base) + 1, Len(file.dir)),
           file.stem, file.ext)
    ELSE P(r.output_dir, file.stem, file.ext)

\* Path.exists() can raise PermissionError or OSError; the three places that
\* call it catch that. `fail` is the number of the call that raises, counting
\* the calls of one get_output_path from 1; 0 when none does.

\* The loop of _get_unique_path (file_utils.py:125-135); `call` is the number
\* of the exists() call this iteration makes.
RECURSIVE UniqueFrom(_, _, _, _, _)
UniqueFrom(f, p, counter, fail, call) ==
    LET new_path == P(p.dir, p.stem \o "_clean_" \o ToString(counter), p.ext)
    IN  IF fail = call THEN new_path
        ELSE IF ~Exists(f, new_path) THEN new_path
        ELSE UniqueFrom(f, p, counter + 1, fail, call + 1)

\* A _get_unique_path whose counter starts at 2.
_get_unique_path_FromTwo(f, p, fail) ==
    IF fail = 2 THEN p
    ELSE IF ~Exists(f, p) THEN p
    ELSE UniqueFrom(f, p, 2, fail, 3)

\* _get_unique_path makes the second exists() call, then those of the loop.
_get_unique_path(f, p, fail) ==
    IF fail = 2 THEN p
    ELSE IF ~Exists(f, p) THEN p
    ELSE UniqueFrom(f, p, 1, fail, 3)

\* The path get_output_path returns. With overwrite, exists() is not called.
get_output_path(f, r, file, base, fail) ==
    LET output_path == Target(r, file, base)
    IN  IF r.overwrite THEN output_path
        ELSE IF fail = 1 THEN output_path
        ELSE IF Exists(f, output_path) THEN _get_unique_path(f, output_path, fail)
        ELSE output_path

\* The number of the last name <stem>_clean_<n> the loop tries when no call
\* raises.
RECURSIVE LastTried(_, _, _)
LastTried(f, p, counter) ==
    IF ~Exists(f, P(p.dir, p.stem \o "_clean_" \o ToString(counter), p.ext))
    THEN counter
    ELSE LastTried(f, p, counter + 1)

\* How many times get_output_path calls exists() when no call raises.
ExistsCalls(f, r, file, base) ==
    LET output_path == Target(r, file, base)
    IN  IF r.overwrite THEN 0
        ELSE IF ~Exists(f, output_path) THEN 1
        ELSE 2 + LastTried(f, output_path, 1)

\* The directories get_output_path creates: the parents of the target when the
\* structure is kept, none when the output is flat.
ResolveMkdir(r, file, base) ==
    IF r.keep_structure /\ base # NoBase
    THEN Parents(Target(r, file, base).dir)
    ELSE {}

\* core.py:177  base_input_dir
base_input_dir(r) ==
    IF r.kind = "file" THEN r.input_path.dir ELSE r.input_path

----------------------------------------------------------------------------
(* The scrubbers *)

ImageFormats == { ".jpg", ".jpeg", ".png", ".webp" }
PDFFormats == { ".pdf" }
OOXMLFormats == { ".docx", ".xlsx", ".pptx" }
MediaFormats ==
    { ".mp4", ".mov", ".mkv", ".avi", ".m4v", ".webm", ".mpg", ".mpeg",
      ".mp3", ".wav", ".flac", ".m4a", ".aac", ".ogg", ".opus" }

\* CoreScrubber.scrubbers, in registration order.
Scrubbers == << "image", "pdf", "ooxml", "media" >>

\* can_handle of each scrubber: file_path.suffix.lower() in SUPPORTED_FORMATS.
can_handle(prov, p) ==
    CASE prov = "image" -> Lower(p.ext) \in ImageFormats
      [] prov = "pdf"   -> Lower(p.ext) \in PDFFormats
      [] prov = "ooxml" -> Lower(p.ext) \in OOXMLFormats
      [] prov = "media" -> Lower(p.ext) \in MediaFormats

\* A scrub_file that hands every file to the image scrubber.
Provider_Image(p) == "image"

\* scrub_file: the first scrubber, in registration order, that can handle the
\* file; None when there is none.
Provider(p) ==
    LET hits == { i \in 1..Len(Scrubbers) : can_handle(Scrubbers[i], p) }
    IN  IF hits = {} THEN None
        ELSE Scrubbers[CHOOSE i \in hits : \A j \in hits : i <= j]

\* The checks a scrub call makes before it has a temporary file, in the order
\* the scrubber makes them.
Prologue(prov) ==
    CASE prov = "image" -> << "readable", "mkdir", "writable", "mktemp" >>
      [] prov = "pdf"   -> << "dep", "readable", "mkdir", "writable", "mktemp" >>
      [] prov = "ooxml" -> << "readable", "mkdir", "writable", "badzip",
                              "extract", "mktemp" >>
      [] prov = "media" -> << "readable", "dep", "mkdir", "writable", "mktemp" >>

\* The ways the environment can fail a scrub call before it has a temporary
\* file: one of the scrubber's checks fails, or none does.
BeginFaults(prov) ==
    { "none" } \cup { Prologue(prov)[i] : i \in 1..Len(Prologue(prov)) }

\* Whether the failure of `check` leaves scrub as an exception: the mkdir of
\* the media scrubber is outside its try block, and the outer try blocks of the
\* image and PDF scrubbers have a finally clause but no except clause.
BeginRaises(prov, check) ==
    \/ check = "mkdir" /\ prov \in { "image", "pdf", "media" }
    \/ check = "mktemp" /\ prov \in { "image", "pdf" }

\* Scrubbers that report a missing tool as an Error.
BeginFailure_DepError(prov, check, inp) ==
    CASE check = "dep" -> ErrorResult(inp, "DEPENDENCY_ERROR")
      [] check \in { "readable", "writable" } ->
            ErrorResult(inp, "PERMISSION_ERROR")
      [] check = "badzip" -> ErrorResult(inp, "INPUT_ERROR")
      [] OTHER -> ErrorResult(inp, "PROCESSING_ERROR")

\* The result the scrubber returns when `check` fails and the failure does not
\* leave scrub as an exception.
BeginFailure(prov, check, inp) ==
    CASE check = "readable" -> ErrorResult(inp, "PERMISSION_ERROR")
      [] check = "dep" ->
            IF prov = "pdf"
            THEN Result("SKIP", inp, NoPath, "DEPENDENCY_ERROR",
                        "pikepdf not installed", "hint")
            ELSE Result("SKIP", inp, NoPath, None, "ffmpeg not available", None)
      [] check = "mkdir" -> ErrorResult(inp, "PROCESSING_ERROR")
      [] check = "writable" -> ErrorResult(inp, "PERMISSION_ERROR")
      [] check = "badzip" -> ErrorResult(inp, "INPUT_ERROR")
      [] check = "extract" -> ErrorResult(inp, "PROCESSING_ERROR")
      [] check = "mktemp" -> ErrorResult(inp, "PROCESSING_ERROR")

\* Whether the scrubber's parent.mkdir(parents=True) has run, and succeeded,
\* when `fault` stops the call.
MkdirDone(fault) ==
    fault \in { "none", "writable", "badzip", "extract", "mktemp" }

\* The error categories a scrubber returns when building the cleaned copy in
\* the temporary file fails (an image is identified before anything is
\* written; the other scrubbers can meet bad input at any point).
WriteFailures(prov) ==
    CASE prov = "image" -> { "INPUT_ERROR", "OUTPUT_ERROR", "PROCESSING_ERROR" }
      [] prov = "pdf"   -> { "INPUT_ERROR", "OUTPUT_ERROR", "PROCESSING_ERROR" }
      [] prov = "ooxml" -> { "OUTPUT_ERROR", "PROCESSING_ERROR" }
      [] prov = "media" -> { "INPUT_ERROR", "PERMISSION_ERROR",
                             "OUTPUT_ERROR", "PROCESSING_ERROR" }

\* The name NamedTemporaryFile(dir=output_path.parent, suffix=...) gives the
\* temporary file of the idx-th scrub call.
TempFor(out, i) == P(out.dir, "tmp" \o ToString(i), out.ext)

IsTemp(p) == \E i \in 1..(MaxFiles + 1) : p.stem = "tmp" \o ToString(i)

\* A scrubber that builds the cleaned copy in place.
WriteTarget_InPlace(tmp, out) == out

\* Where the scrubber writes the cleaned copy while it builds it.
WriteTarget(tmp, out) == tmp

\* shutil.move(tmp, out): one rename inside the destination directory.
Move(f, tmp, out) == Put(Remove(f, tmp), out, f[tmp])

\* A finally block that forgets the temporary file.
Cleanup_Forgets(f, tmp, unlinkOk) == f

\* The finally block: unlink the temporary file if tmp_path is still set and
\* the file exists; a failing unlink is swallowed and leaves the file.
Cleanup(f, tmp, unlinkOk) ==
    IF tmp # NoPath /\ Exists(f, tmp) /\ unlinkOk THEN Remove(f, tmp) ELSE f

----------------------------------------------------------------------------
(* The state after the caller has built the arguments of scrub_path *)

Options ==
    [recursive : BOOLEAN, keep_structure : BOOLEAN, overwrite : BOOLEAN,
     dry_run : BOOLEAN]

\* The inputs of a run. kind says what input_path is: a directory, a single
\* file, a path that does not exist, one that os.access finds unreadable, one
\* that is neither a file nor a directory, or a directory whose listing raises
\* PermissionError.
Inputs ==
    { [kind |-> "dir", input_path |-> InRoot, present |-> s] :
        s \in { t \in SUBSET DirTree : Cardinality(t) <= MaxFiles } }
    \cup { [kind |-> "file", input_path |-> p, present |-> {p}] : p \in Tree }
    \cup { [kind |-> k, input_path |-> InRoot, present |-> {}] :
            k \in { "missing", "unreadable", "special", "noperm" } }

\* The files in the output directory before the run.
OldFiles(out) == IF out = <<"out">> THEN { {}, { OldFile } } ELSE { {} }

InitFs(present, old) ==
    [p \in present \cup old |-> IF p \in present THEN Orig(p) ELSE Old(p)]

InitDirs(i, old) ==
    (IF i.kind = "missing" THEN {} ELSE { InRoot })
    \cup { p.dir : p \in i.present \cup old }

\* Observations: where the run was when the token was first set (the number
\* of recorded results and the position), how many times a scrubber's scrub
\* was called, the filesystem when the loop was entered, the content of
\* output_path when it was resolved for the file in hand, whether a cleanup's
\* unlink has failed, and which exists() call of the get_output_path of the
\* file in hand raised (0 when none did), the callbacks invoked so far, and
\* the scrubber scrub_file called for the file in hand, with whether that
\* scrubber found its tool missing; how many times get_output_path was called;
\* how many files were started with the token already set.
NoCall == [provider |-> None, depMissing |-> FALSE]

NoObs(f, d) ==
    [cancelAt |-> [n |-> 0, at |-> "never"], scrubCalls |-> 0, fsLoop |-> f,
     dirsLoop |-> d, prevOut |-> Absent, unlinkFailed |-> FALSE,
     existsFail |-> 0, events |-> << >>, call |-> NoCall,
     resolveCalls |-> 0, startsAfterCancel |-> 0]

Init ==
    \E i \in Inputs, o \in Options, out \in OutRoots :
      \E old \in OldFiles(out) :
        /\ run = [kind |-> i.kind, input_path |-> i.input_path,
                  output_dir |-> out, recursive |-> o.recursive,
                  keep_structure |-> o.keep_structure,
                  overwrite |-> o.overwrite, dry_run |-> o.dry_run]
        /\ fs = InitFs(i.present, old)
        /\ dirs = InitDirs(i, old)
        /\ pc = "validate"
        /\ files = << >>
        /\ results = << >>
        /\ cnt = ZeroCnt
        /\ cancelled = FALSE
        /\ token = FALSE
        /\ summary = NoSummary
        /\ idx = 0
        /\ outPath = NoPath
        /\ tmpPath = NoPath
        /\ pending = NoResult
        /\ raisedIn = None
        /\ obs = NoObs(InitFs(i.present, old), InitDirs(i, old))

----------------------------------------------------------------------------
(* ScrubCallbacks (core.py:15-23) *)

\* One invocation of a callback: its name and its arguments, those the
\* callback does not take being 0, NoPath, NoResult or NoSummary.
Ev(cb, i, n, file, res, sm) ==
    [cb |-> cb, index |-> i, total |-> n, file |-> file, result |-> res,
     summary |-> sm]

on_scan_start(n) == Ev("on_scan_start", 0, n, NoPath, NoResult, NoSummary)

on_file_start(i, n, file) == Ev("on_file_start", i, n, file, NoResult, NoSummary)

on_file_result(res) == Ev("on_file_result", 0, 0, NoPath, res, NoSummary)

on_progress(i, n) == Ev("on_progress", i, n, NoPath, NoResult, NoSummary)

\* An on_done that is given no summary.
on_done_Blank(sm) == Ev("on_done", 0, 0, NoPath, NoResult, NoSummary)

on_done(sm) == Ev("on_done", 0, 0, NoPath, NoResult, sm)

----------------------------------------------------------------------------
(* scrub_path (core.py:79-233) *)

\* A validation that reports nothing and lets the run go on.
ShortCircuit_Continue(cat) ==
    /\ pc' = "scan"
    /\ UNCHANGED <<run, fs, dirs, files, results, cnt, cancelled, token,
                   summary, idx, outPath, tmpPath, pending, raisedIn, obs>>

\* The early return of a validation or scanning failure: one Error result,
\* the short summary, on_file_result and on_done.
ShortCircuit(cat) ==
    /\ results' = << ErrorResult(run.input_path, cat) >>
    /\ summary' = ShortSummary
    /\ obs' = [obs EXCEPT !.events =
                 @ \o << on_file_result(ErrorResult(run.input_path, cat)),
                         on_done(ShortSummary) >>]
    /\ pc' = "done"
    /\ UNCHANGED <<run, fs, dirs, files, cnt, cancelled, token, idx, outPath,
                   tmpPath, pending, raisedIn>>

\* core.py:109-138: the input path must exist and be readable.
ValidateInput ==
    /\ pc = "validate"
    /\ IF run.kind = "missing" THEN ShortCircuit("INPUT_ERROR")
       ELSE IF run.kind = "unreadable" THEN ShortCircuit("PERMISSION_ERROR")
       ELSE /\ pc' = "scan"
            /\ UNCHANGED <<run, fs, dirs, files, results, cnt, cancelled, token,
                           summary, idx, outPath, tmpPath, pending, raisedIn, obs>>

\* A scan that reports every failure of discover_files as an input error.
ScanCategory_AlwaysInput(kind) == "INPUT_ERROR"

\* core.py:142-169: the category of a failed scan: PERMISSION_ERROR for a
\* PermissionError, INPUT_ERROR for any other exception of discover_files.
ScanCategory(kind) ==
    IF kind = "noperm" THEN "PERMISSION_ERROR" ELSE "INPUT_ERROR"

\* core.py:140-171: discovery; PermissionError and any other exception of
\* discover_files end the run.
Scan ==
    /\ pc = "scan"
    /\ IF run.kind \in { "noperm", "special" }
       THEN ShortCircuit(ScanCategory(run.kind))
       ELSE /\ files' = discover_files(fs, run)
            /\ pc' = "setup"
            /\ UNCHANGED <<run, fs, dirs, results, cnt, cancelled, token,
                           summary, idx, outPath, tmpPath, pending, raisedIn, obs>>

\* core.py:173-181: on_scan_start, then OutputManager(...), whose constructor
\* creates the output directory (file_utils.py:71) and may fail doing so.
Setup ==
    /\ pc = "setup"
    /\ \E mkdirOk \in BOOLEAN :
         IF mkdirOk
         THEN /\ dirs' = dirs \cup Parents(run.output_dir)
              /\ pc' = "loop"
              /\ obs' = [obs EXCEPT !.fsLoop = fs,
                                    !.dirsLoop = dirs \cup Parents(run.output_dir),
                                    !.events = Append(@, on_scan_start(Len(files)))]
              /\ UNCHANGED raisedIn
         ELSE /\ pc' = "raised"
              /\ raisedIn' = "OutputManager"
              /\ obs' = [obs EXCEPT
                           !.events = Append(@, on_scan_start(Len(files)))]
              /\ UNCHANGED dirs
    /\ UNCHANGED <<run, fs, files, results, cnt, cancelled, token, summary,
                   idx, outPath, tmpPath, pending>>

\* A loop that never reads the token.
StopsLoop_Never(tok) == FALSE

\* core.py:184: whether the loop stops at the top of an iteration.
StopsLoop(tok) == tok

\* A loop that reads the token before it looks for a next file.
LoopHead_TokenFirst ==
    /\ pc = "loop"
    /\ IF StopsLoop(token)
       THEN /\ cancelled' = TRUE
            /\ pc' = "finalize"
       ELSE IF idx = Len(files)
       THEN /\ pc' = "finalize"
            /\ UNCHANGED cancelled
       ELSE /\ pc' = "start"
            /\ UNCHANGED cancelled
    /\ UNCHANGED <<run, fs, dirs, files, results, cnt, token, summary, idx,
                   outPath, tmpPath, pending, raisedIn, obs>>

\* core.py:183-186: the loop head: the loop ends when the files are exhausted;
\* otherwise the token is read, and the iteration begins if it is not set.
LoopHead ==
    /\ pc = "loop"
    /\ IF idx = Len(files)
       THEN /\ pc' = "finalize"
            /\ UNCHANGED cancelled
       ELSE IF StopsLoop(token)
       THEN /\ cancelled' = TRUE
            /\ pc' = "finalize"
       ELSE /\ pc' = "start"
            /\ UNCHANGED cancelled
    /\ UNCHANGED <<run, fs, dirs, files, results, cnt, token, summary, idx,
                   outPath, tmpPath, pending, raisedIn, obs>>

\* core.py:188-189: on_file_start for the file of the iteration. Another
\* thread can set the token between the read at line 184 and this call.
FileStart ==
    /\ pc = "start"
    /\ idx' = idx + 1
    /\ obs' = [obs EXCEPT
                 !.events = Append(@, on_file_start(idx + 1, Len(files),
                                                    files[idx + 1])),
                 !.startsAfterCancel = IF token THEN @ + 1 ELSE @]
    /\ pc' = "resolve"
    /\ UNCHANGED <<run, fs, dirs, files, results, cnt, cancelled, token,
                   summary, outPath, tmpPath, pending, raisedIn>>

\* core.py:191: output_manager.get_output_path(file_path, base_input_dir);
\* its mkdir (file_utils.py:88) is not guarded and may raise; a raising
\* exists() is caught inside it.
Resolve ==
    /\ pc = "resolve"
    /\ LET file == files[idx]
           base == base_input_dir(run)
           made == ResolveMkdir(run, file, base)
       IN  \E mkdirOk \in BOOLEAN, fail \in 0..ExistsCalls(fs, run, file, base) :
             IF mkdirOk \/ made = {}
             THEN /\ dirs' = dirs \cup made
                  /\ outPath' = get_output_path(fs, run, file, base, fail)
                  /\ obs' = [obs EXCEPT !.prevOut =
                               Content(fs, get_output_path(fs, run, file, base,
                                                           fail)),
                                        !.existsFail = fail,
                                        !.resolveCalls = @ + 1]
                  /\ pc' = "dispatch"
                  /\ UNCHANGED raisedIn
             ELSE /\ pc' = "raised"
                  /\ raisedIn' = "get_output_path"
                  /\ obs' = [obs EXCEPT !.resolveCalls = @ + 1]
                  /\ UNCHANGED <<dirs, outPath>>
    /\ UNCHANGED <<run, fs, files, results, cnt, cancelled, token, summary,
                   idx, tmpPath, pending>>

\* A loop that hands the file to scrub_file in a dry run too.
Dispatches_Always(r) == TRUE

\* core.py:193: whether the file is handed to scrub_file.
Dispatches(r) == ~r.dry_run

\* core.py:194-199: the result of a dry run.
DryRunResult(file, out) ==
    Result("SKIP", file, out, None, "dry-run (no changes written)", None)

\* core.py:73-77: the result of scrub_file when no scrubber handles the file.
UnsupportedResult(file) ==
    Result("SKIP", file, NoPath, None, "Unsupported file type: " \o file.ext,
           None)

\* core.py:193-201 with scrub_file (core.py:65-77) and the scrubber's checks up
\* to the creation of its temporary file (image_scrubber.py:36-70,
\* pdf_scrubber.py:40-83, ooxml_scrubber.py:42-106, media_scrubber.py:59-100).
Dispatch ==
    /\ pc = "dispatch"
    /\ LET file == files[idx]
           prov == Provider(file)
       IN  IF ~Dispatches(run)
           THEN /\ pending' = DryRunResult(file, outPath)
                /\ pc' = "record"
                /\ UNCHANGED <<fs, dirs, tmpPath, raisedIn, obs>>
           ELSE IF prov = None
           THEN /\ pending' = UnsupportedResult(file)
                /\ pc' = "record"
                /\ UNCHANGED <<fs, dirs, tmpPath, raisedIn, obs>>
           ELSE IF ~Exists(fs, file)
           THEN /\ pending' = ErrorResult(file, "INPUT_ERROR")
                /\ pc' = "record"
                /\ obs' = [obs EXCEPT !.scrubCalls = @ + 1,
                                      !.call = [provider |-> prov,
                                                depMissing |-> FALSE]]
                /\ UNCHANGED <<fs, dirs, tmpPath, raisedIn>>
           ELSE \E fault \in BeginFaults(prov) :
                /\ obs' = [obs EXCEPT !.scrubCalls = @ + 1,
                                      !.call = [provider |-> prov,
                                                depMissing |-> fault = "dep"]]
                /\ dirs' = IF MkdirDone(fault) THEN dirs \cup Parents(outPath.dir)
                           ELSE dirs
                /\ IF fault = "none"
                   THEN /\ tmpPath' = TempFor(outPath, idx)
                        /\ fs' = Put(fs, TempFor(outPath, idx),
                                     Empty(TempFor(outPath, idx)))
                        /\ pc' = "tmp"
                        /\ UNCHANGED <<pending, raisedIn>>
                   ELSE IF BeginRaises(prov, fault)
                   THEN /\ pc' = "raised"
                        /\ raisedIn' = "scrub"
                        /\ UNCHANGED <<fs, tmpPath, pending>>
                   ELSE /\ pending' = BeginFailure(prov, fault, file)
                        /\ pc' = "record"
                        /\ UNCHANGED <<fs, tmpPath, raisedIn>>
    /\ UNCHANGED <<run, files, results, cnt, cancelled, token, summary, idx,
                   outPath>>

\* The scrubber builds the cleaned copy: the first part of the data is
\* written (image_scrubber.py:72-93, pdf_scrubber.py:85-99,
\* ooxml_scrubber.py:108-115, media_scrubber.py:102-149), or the step fails and
\* the scrubber's except clause makes the Error result.
ScrubWrite ==
    /\ pc = "tmp"
    /\ LET file == files[idx]
       IN  \E o \in { "ok" } \cup WriteFailures(Provider(file)) :
             IF o = "ok"
             THEN /\ fs' = Put(fs, WriteTarget(tmpPath, outPath), Partial(file))
                  /\ pc' = "writing"
                  /\ UNCHANGED pending
             ELSE /\ pending' = ErrorResult(file, o)
                  /\ pc' = "cleanup"
                  /\ UNCHANGED fs
    /\ UNCHANGED <<run, dirs, files, results, cnt, cancelled, token, summary,
                   idx, outPath, tmpPath, raisedIn, obs>>

\* The rest of the data is written, or the write fails half way.
ScrubWriteEnd ==
    /\ pc = "writing"
    /\ LET file == files[idx]
           prov == Provider(file)
           fails == IF prov = "image" THEN WriteFailures(prov) \ { "INPUT_ERROR" }
                    ELSE WriteFailures(prov)
       IN  \E o \in { "ok" } \cup fails :
             IF o = "ok"
             THEN /\ fs' = Put(fs, WriteTarget(tmpPath, outPath), Clean(file))
                  /\ pc' = "written"
                  /\ UNCHANGED pending
             ELSE /\ pending' = ErrorResult(file, o)
                  /\ pc' = "cleanup"
                  /\ UNCHANGED fs
    /\ UNCHANGED <<run, dirs, files, results, cnt, cancelled, token, summary,
                   idx, outPath, tmpPath, raisedIn, obs>>

\* shutil.move(tmp_path, output_path), tmp_path = None and the Success result
\* (image_scrubber.py:95-104 and the same lines of the other scrubbers); an
\* OSError of the move is an OUTPUT_ERROR.
ScrubMove ==
    /\ pc = "written"
    /\ LET file == files[idx]
       IN  \E moveOk \in BOOLEAN :
             IF moveOk
             THEN /\ fs' = Move(fs, tmpPath, outPath)
                  /\ tmpPath' = NoPath
                  /\ pending' = Result("SUCCESS", file, outPath, None, None, None)
             ELSE /\ pending' = ErrorResult(file, "OUTPUT_ERROR")
                  /\ UNCHANGED <<fs, tmpPath>>
    /\ pc' = "cleanup"
    /\ UNCHANGED <<run, dirs, files, results, cnt, cancelled, token, summary,
                   idx, outPath, raisedIn, obs>>

\* The finally clause of scrub (image_scrubber.py:152-158 and the same lines
\* of the other scrubbers), then the return to scrub_path.
ScrubFinally ==
    /\ pc = "cleanup"
    /\ \E unlinkOk \in BOOLEAN :
         /\ fs' = Cleanup(fs, tmpPath, unlinkOk)
         /\ obs' = [obs EXCEPT !.unlinkFailed =
                      @ \/ (tmpPath # NoPath /\ Exists(fs, tmpPath) /\ ~unlinkOk)]
    /\ tmpPath' = NoPath
    /\ pc' = "record"
    /\ UNCHANGED <<run, dirs, files, results, cnt, cancelled, token, summary,
                   idx, outPath, pending, raisedIn>>

\* Counters that leave Skip outcomes out.
Count_SkipsUncounted(c, r) ==
    IF r.result_type = "SUCCESS" THEN [c EXCEPT !.success = @ + 1]
    ELSE IF r.result_type = "SKIP" THEN c
    ELSE [c EXCEPT !.errors = @ + 1]

\* core.py:205-210: the counters after a result.
Count(c, r) ==
    IF r.result_type = "SUCCESS" THEN [c EXCEPT !.success = @ + 1]
    ELSE IF r.result_type = "SKIP" THEN [c EXCEPT !.skipped = @ + 1]
    ELSE [c EXCEPT !.errors = @ + 1]

\* A loop that reports the progress before the result.
Deliver_ProgressFirst(res, i, n) == << on_progress(i, n), on_file_result(res) >>

\* core.py:212-216: the callbacks invoked once the result is counted.
Deliver(res, i, n) == << on_file_result(res), on_progress(i, n) >>

\* core.py:203-216: the result is appended and counted, on_file_result and
\* on_progress are called.
Record ==
    /\ pc = "record"
    /\ results' = Append(results, pending)
    /\ cnt' = Count(cnt, pending)
    /\ pending' = NoResult
    /\ outPath' = NoPath
    /\ obs' = [obs EXCEPT !.prevOut = Absent, !.existsFail = 0,
                          !.call = NoCall,
                          !.events = @ \o Deliver(pending, idx, Len(files))]
    /\ pc' = "loop"
    /\ UNCHANGED <<run, fs, dirs, files, cancelled, token, summary, idx,
                   tmpPath, raisedIn>>

\* An adjustment that counts every discovered file as skipped.
CancelAdjust_All(c, total, n, canc) ==
    IF canc /\ n < total THEN [c EXCEPT !.skipped = @ + total] ELSE c

\* No adjustment: the files never reached are counted nowhere.
CancelAdjust_None(c, total, n, canc) == c

\* core.py:218-220: the files a cancelled run never reached count as skipped.
CancelAdjust(c, total, n, canc) ==
    IF canc /\ n < total THEN [c EXCEPT !.skipped = @ + (total - n)] ELSE c

\* core.py:218-233: the summary, on_done, and the return.
Finalize ==
    /\ pc = "finalize"
    /\ cnt' = CancelAdjust(cnt, Len(files), Len(results), cancelled)
    /\ summary' = Summary(Len(files),
                          CancelAdjust(cnt, Len(files), Len(results), cancelled),
                          cancelled)
    /\ obs' = [obs EXCEPT !.events =
                 Append(@, on_done(Summary(Len(files),
                                           CancelAdjust(cnt, Len(files),
                                                        Len(results), cancelled),
                                           cancelled)))]
    /\ pc' = "done"
    /\ UNCHANGED <<run, fs, dirs, files, results, cancelled, token, idx,
                   outPath, tmpPath, pending, raisedIn>>

\* cli.py:47-103  scrub_command: the exit code of the CLI, from whether
\* input_path exists, whether the output directory could be created, and the
\* summary scrub_path returned.
scrub_command(inputExists, mkdirOk, sm) ==
    IF ~inputExists THEN 1
    ELSE IF ~mkdirOk THEN 1
    ELSE IF sm.total = 0 THEN 0
    ELSE IF sm.errors # 0 THEN 1
    ELSE 0

\* Where the run is, as the loop sees it: before the loop, between two files
\* (at the loop head, the token not yet read), during the processing of a file
\* (from the read of the token that let the iteration begin), or after the loop.
Phase(p) ==
    CASE p \in { "validate", "scan", "setup" } -> "before"
      [] p = "loop" -> "between"
      [] p \in { "start", "resolve", "dispatch", "tmp", "writing", "written",
                 "cleanup", "record" } -> "during"
      [] OTHER -> "after"

\* A cancel() that flips the flag.
Cancel_Toggle ==
    /\ pc \notin { "done", "raised" }
    /\ token' = ~token
    /\ obs' = [obs EXCEPT !.cancelAt =
                 IF token THEN @ ELSE [n |-> Len(results), at |-> Phase(pc)]]
    /\ UNCHANGED <<run, fs, dirs, pc, files, results, cnt, cancelled, summary,
                   idx, outPath, tmpPath, pending, raisedIn>>

\* CancelToken.cancel (core.py:32-34), called by a callback or by another
\* thread (gui/worker.py:44-46) at any point of the run.
Cancel ==
    /\ pc \notin { "done", "raised" }
    /\ token' = TRUE
    /\ obs' = [obs EXCEPT !.cancelAt =
                 IF token THEN @ ELSE [n |-> Len(results), at |-> Phase(pc)]]
    /\ UNCHANGED <<run, fs, dirs, pc, files, results, cnt, cancelled, summary,
                   idx, outPath, tmpPath, pending, raisedIn>>

Next ==
    \/ ValidateInput
    \/ Scan
    \/ Setup
    \/ LoopHead
    \/ FileStart
    \/ Resolve
    \/ Dispatch
    \/ ScrubWrite
    \/ ScrubWriteEnd
    \/ ScrubMove
    \/ ScrubFinally
    \/ Record
    \/ Finalize
    \/ Cancel

Spec == Init /\ [][Next]_vars

----------------------------------------------------------------------------
(* Properties *)

\* The run passed validation and scanning: it has a list of discovered files.
PassedScan == run.kind \in { "dir", "file" }

\* scrub_path has returned.
Returned == pc = "done"

Sum(sm) == sm.success + sm.skipped + sm.errors

SkipCount == Cardinality({ i \in 1..Len(results) : results[i].result_type = "SKIP" })

\* The discovered files the cancelled run never reached.
Unreached == IF summary.cancelled THEN summary.total - Len(results) ELSE 0

UnderOut(p) == IsPrefix(run.output_dir, p.dir)

\* C1: no discovered input file is modified, replaced or deleted by the run:
\* at every point each discovered file holds the content it had before.
C1_InputsUntouched ==
    \A i \in 1..Len(files) : Content(fs, files[i]) = Orig(files[i])

\* C2: a failure while handling a file, in output-path resolution or in the
\* handler, does not leave the loop: no exception escapes scrub_path from
\* get_output_path or from scrub, and a run over N discovered files that is
\* not cancelled returns exactly N outcomes.
C2_LoopFailuresRecorded ==
    /\ raisedIn \notin { "get_output_path", "scrub" }
    /\ (Returned /\ PassedScan /\ ~summary.cancelled)
          => Len(results) = Len(files)

\* C3: scrub_file never raises to the orchestrator: no failure inside a
\* scrubber's scrub, the creation of the output's parent directory and of the
\* temporary file included, leaves it as an exception.
C3_ScrubFileNeverRaises == raisedIn # "scrub"

\* C4 as claimed: every summary scrub_path returns satisfies
\* success + skipped + errors <= total, the short-circuits included.
C4_Original == Returned => Sum(summary) <= summary.total

\* C4 as amended: every summary of a run that passes validation and scanning
\* satisfies success + skipped + errors <= total; the summary of a validation
\* or scanning short-circuit has total 0 and errors 1.
C4_SumWithinTotal ==
    /\ (Returned /\ PassedScan) => Sum(summary) <= summary.total
    /\ (Returned /\ ~PassedScan) => summary = ShortSummary

C4_Witness ==
    /\ Returned /\ PassedScan
    /\ summary.cancelled /\ Len(results) = 1 /\ summary.total = 2

\* C5 as claimed: every summary returned reconciles as
\* success + skipped + errors + u = total, u the number of files never reached
\* because of cancellation.
C5_Original == Returned => Sum(summary) + Unreached = summary.total

\* C5 as amended: every summary of a run that passes validation and scanning
\* satisfies success + skipped + errors = total, where skipped already holds
\* the u files never reached: skipped = (number of Skip outcomes) + u.
C5_Reconciles ==
    (Returned /\ PassedScan) =>
        /\ Sum(summary) = summary.total
        /\ summary.skipped = SkipCount + Unreached

C5_Witness ==
    /\ Returned /\ PassedScan /\ summary.cancelled
    /\ Unreached = 1 /\ summary.success = 1

\* C6: if the token is set after the outcome of file k is recorded and before
\* the next file is started (1 <= k < N), the run returns exactly k outcomes,
\* summary.cancelled is true, summary.total is N, and summary.skipped is the
\* number of Skip outcomes among the k plus the N - k files never processed.
C6_CancelAfterK ==
    (/\ Returned
     /\ obs.cancelAt.at = "between"
     /\ 1 <= obs.cancelAt.n /\ obs.cancelAt.n < Len(files))
    => /\ Len(results) = obs.cancelAt.n
       /\ summary.cancelled
       /\ summary.total = Len(files)
       /\ summary.skipped = SkipCount + (Len(files) - obs.cancelAt.n)

C6_Witness ==
    /\ Returned /\ obs.cancelAt.at = "between" /\ obs.cancelAt.n = 1
    /\ Len(files) = 2 /\ SkipCount = 1

\* What C7 says of a dry run: every outcome is a Skip with the dry-run reason,
\* no scrubber's scrub was called, and every path under the output directory
\* holds what it held before.
DryRunClean ==
    /\ \A i \in 1..Len(results) :
          /\ results[i].result_type = "SKIP"
          /\ results[i].reason = "dry-run (no changes written)"
    /\ obs.scrubCalls = 0
    /\ \A p \in (DOMAIN fs) \cup (DOMAIN obs.fsLoop) :
          UnderOut(p) => Content(fs, p) = Content(obs.fsLoop, p)

\* C7 as claimed: with dry_run, every outcome of the run is a dry-run Skip, no
\* scrub is invoked and no file of the output directory is created or changed.
C7_Original == run.dry_run => DryRunClean

\* C7 as amended: the same, for a run that passes validation and scanning (a
\* validation or scanning failure yields its single Error outcome in a dry run
\* too).
C7_DryRunSkips == (run.dry_run /\ PassedScan) => DryRunClean

C7_Witness ==
    /\ run.dry_run /\ Returned /\ Len(results) = 2
    /\ results[1].output_path # NoPath

\* C8: with dry_run, the Processing phase changes nothing in the filesystem:
\* the directories and the files are those of the moment the loop was entered.
C8_DryRunNoMutation ==
    (run.dry_run /\ Phase(pc) # "before") =>
        /\ dirs = obs.dirsLoop
        /\ fs = obs.fsLoop

\* C9: while a scrubber runs, and when it is done, output_path holds either
\* what it held when it was resolved or the complete cleaned copy of the file
\* in hand; half written and empty files exist under temporary names only, and
\* the temporary file is in the directory of output_path.
C9_NoPartialOutput ==
    /\ (Phase(pc) = "during" /\ outPath # NoPath) =>
          \/ Content(fs, outPath) = obs.prevOut
          \/ Content(fs, outPath) = Clean(files[idx])
    /\ \A p \in DOMAIN fs : fs[p].kind \in { "partial", "empty" } => IsTemp(p)
    /\ tmpPath # NoPath => tmpPath.dir = outPath.dir

C9_Witness ==
    /\ pc = "writing"
    /\ Content(fs, tmpPath) = Partial(files[idx])
    /\ obs.prevOut # Absent
    /\ Content(fs, outPath) = obs.prevOut

\* A scrub call has ended, by a return or by an exception.
ScrubEnded ==
    \/ pc \in { "record", "loop", "finalize", "done" }
    \/ pc = "raised" /\ raisedIn = "scrub"

NoTempLeft == \A p \in DOMAIN fs : ~IsTemp(p)

\* C10 as claimed: after a scrub call has ended, no temporary file remains.
C10_Original == ScrubEnded => NoTempLeft

\* C10 as amended: after a scrub call has ended, no temporary file remains,
\* unless the unlink of the cleanup itself failed (the finally clause swallows
\* that failure and leaves the file).
C10_TempRemoved == (ScrubEnded /\ ~obs.unlinkFailed) => NoTempLeft

C10_Witness ==
    /\ pc = "record" /\ pending.error_category = "OUTPUT_ERROR"
    /\ ~obs.unlinkFailed /\ NoTempLeft

\* The name <stem>_clean_<n><ext> beside path p.
CleanName(p, n) == P(p.dir, p.stem \o "_clean_" \o ToString(n), p.ext)

\* get_output_path has returned the path of the file in hand, and the
\* filesystem is the one it saw.
PathResolved == pc = "dispatch"

\* The path get_output_path computed for the file in hand before it looked
\* for collisions.
ResolvedTarget == Target(run, files[idx], base_input_dir(run))

\* Path p is <stem>_clean_<n><ext> for the smallest n >= 1 no file has.
SmallestFree(p) ==
    \E n \in 1..(Cardinality(DOMAIN fs) + 1) :
        /\ p = CleanName(ResolvedTarget, n)
        /\ ~Exists(fs, p)
        /\ \A m \in 1..(n - 1) : Exists(fs, CleanName(ResolvedTarget, m))

\* C11 as claimed: with overwrite=false and an existing target,
\* get_output_path returns <stem>_clean_<n><ext> for the smallest free n >= 1;
\* with overwrite=true it returns the target; when the target does not exist it
\* returns the target in both modes.
C11_Original ==
    PathResolved =>
        IF run.overwrite \/ ~Exists(fs, ResolvedTarget)
        THEN outPath = ResolvedTarget
        ELSE SmallestFree(outPath)

\* C11 as amended: the same, when no exists() call raises; when the k-th
\* exists() call raises, the path that call was checking is returned, whether a
\* file has that name or not: the target for the first two calls,
\* <stem>_clean_<k-2><ext> for a later one, every name tried before it being
\* taken.
C11_UniquePath ==
    PathResolved =>
        IF run.overwrite \/ ~Exists(fs, ResolvedTarget)
        THEN outPath = ResolvedTarget
        ELSE IF obs.existsFail = 0 THEN SmallestFree(outPath)
        ELSE IF obs.existsFail <= 2 THEN outPath = ResolvedTarget
        ELSE /\ outPath = CleanName(ResolvedTarget, obs.existsFail - 2)
             /\ \A m \in 1..(obs.existsFail - 3) :
                    Exists(fs, CleanName(ResolvedTarget, m))

C11_Witness ==
    /\ PathResolved /\ ~run.overwrite /\ obs.existsFail = 0
    /\ outPath = CleanName(ResolvedTarget, 2)
    /\ Exists(fs, CleanName(ResolvedTarget, 1))

\* The directories that existed before the run, when the input holds no file:
\* the input directory unless it is missing, and those of the files then in
\* the output directory.
DirsBefore == InitDirs([kind |-> run.kind, present |-> {}], DOMAIN obs.fsLoop)

\* C12: when input_path does not exist, scrub_path returns exactly one outcome,
\* an Error of category InputError, and the summary {total 0, success 0,
\* skipped 0, errors 1, cancelled false}; when it exists but is not readable,
\* the same with category PermissionError. The run ends at once: nothing is
\* discovered, no directory is created, no scrubber is called.
C12_ValidationShortCircuit ==
    run.kind \in { "missing", "unreadable" } =>
        /\ pc \in { "validate", "done" }
        /\ files = << >> /\ obs.scrubCalls = 0
        /\ dirs = DirsBefore /\ fs = obs.fsLoop
        /\ Returned =>
              /\ Len(results) = 1
              /\ results[1].result_type = "ERROR"
              /\ results[1].error_category =
                    (IF run.kind = "missing" THEN "INPUT_ERROR"
                     ELSE "PERMISSION_ERROR")
              /\ summary = [total |-> 0, success |-> 0, skipped |-> 0,
                            errors |-> 1, cancelled |-> FALSE]

C12_Witness ==
    /\ Returned /\ run.kind = "unreadable" /\ token
    /\ results[1].error_category = "PERMISSION_ERROR"
    /\ run.output_dir \notin dirs

\* The exit code of the CLI for the run that has returned.
ExitCode == scrub_command(run.kind # "missing", TRUE, summary)

AnyError == \E i \in 1..Len(results) : results[i].result_type = "ERROR"

\* C13: the CLI exits with 0 when the run completes with no Error outcome (no
\* supported file found included), and with 1 whenever an Error outcome
\* occurred or validation failed, the validation and scanning failures that
\* scrub_path reports itself included.
C13_ExitCode ==
    Returned => (ExitCode = (IF AnyError THEN 1 ELSE 0))

\* scrub_file has been called for the file in hand and has not raised.
InScrubFile ==
    /\ ~run.dry_run
    /\ pc \in { "tmp", "writing", "written", "cleanup", "record" }

\* C14: scrub_file calls the first scrubber in registration order (image,
\* PDF, OOXML, media) whose can_handle is true for the file, and no other: one
\* scrub call per file at most; when no scrubber matches, none is called and
\* the outcome is a Skip whose reason names the file's extension.
C14_FirstProvider ==
    /\ obs.scrubCalls <= idx
    /\ obs.call.provider # None =>
          \E i \in 1..Len(Scrubbers) :
              /\ obs.call.provider = Scrubbers[i]
              /\ can_handle(Scrubbers[i], files[idx])
              /\ \A j \in 1..(i - 1) : ~can_handle(Scrubbers[j], files[idx])
    /\ InScrubFile =>
          IF \E i \in 1..Len(Scrubbers) : can_handle(Scrubbers[i], files[idx])
          THEN obs.call.provider # None
          ELSE /\ obs.call.provider = None
               /\ pc = "record"
               /\ pending.result_type = "SKIP"
               /\ pending.reason = "Unsupported file type: " \o files[idx].ext

C14_Witness ==
    /\ pc = "record" /\ obs.call.provider = "ooxml"
    /\ pending.result_type = "SUCCESS" /\ pending.input_path = files[idx]
    /\ obs.scrubCalls = 1

\* The outcome a scrubber gives when its tool is missing.
ToolMissing(r) == r.reason \in { "ffmpeg not available", "pikepdf not installed" }

\* C15: when the tool a scrubber needs is missing (ffmpeg for the media
\* scrubber, pikepdf for the PDF scrubber), scrub returns a Skip, not an Error,
\* and creates neither the output file nor a temporary file: output_path holds
\* what it held, and the call returns to the loop, which goes on.
C15_MissingToolSkips ==
    /\ obs.call.depMissing =>
          /\ pc = "record"
          /\ ToolMissing(pending) /\ pending.result_type = "SKIP"
          /\ Content(fs, outPath) = obs.prevOut
          /\ tmpPath = NoPath /\ ~Exists(fs, TempFor(outPath, idx))
    /\ \A i \in 1..Len(results) :
          ToolMissing(results[i]) => results[i].result_type = "SKIP"

C15_Witness ==
    /\ Len(results) = 2
    /\ results[1].reason = "ffmpeg not available"
    /\ results[1].result_type = "SKIP"
    /\ ~Exists(fs, P(run.output_dir, "d", ".MP3"))
    /\ NoTempLeft

\* discover_files has returned its list.
Discovered == PassedScan /\ pc \notin { "validate", "scan" }

\* The files of the input directory that discovery is to return: the files
\* that were there when the run began, among the immediate children of the
\* directory or in its whole subtree, whose suffix is in the allow-list when
\* letter case is ignored.
ExpectedFiles ==
    { p \in DOMAIN obs.fsLoop :
        /\ IF run.recursive THEN IsPrefix(run.input_path, p.dir)
           ELSE p.dir = run.input_path
        /\ \E e \in SUPPORTED_EXTENSIONS : Lower(p.ext) = e }

\* The place of a path in sorted order.
Rank(p) == CHOOSE i \in 1..Len(TreeOrder) : TreeOrder[i] = p

\* C16: discover_files on a single file returns that file alone, whatever its
\* extension; on a directory it returns exactly the files whose extension,
\* compared case-insensitively, is in the allow-list, each once, in sorted path
\* order, from the immediate children when recursive is false and from the
\* whole subtree when it is true.
C16_Discovery ==
    Discovered =>
        IF run.kind = "file" THEN files = << run.input_path >>
        ELSE /\ { files[i] : i \in 1..Len(files) } = ExpectedFiles
             /\ \A i, j \in 1..Len(files) :
                    i < j => Rank(files[i]) < Rank(files[j])

C16_Witness ==
    /\ Discovered /\ run.kind = "dir" /\ ~run.recursive
    /\ Len(files) = 1 /\ files[1].ext = ".MP3"
    /\ Exists(obs.fsLoop, P(<<"in", "sub">>, "a", ".png"))

\* The callbacks of the first k iterations of the loop, in order.
RECURSIVE Iterations(_)
Iterations(k) ==
    IF k = 0 THEN << >>
    ELSE Iterations(k - 1)
         \o << on_file_start(k, Len(files), files[k]),
                on_file_result(results[k]),
                on_progress(k, Len(files)) >>

\* The callbacks a run that passed scanning is to have invoked by now:
\* on_scan_start(N); the three callbacks of every file recorded; on_file_start
\* of the file in hand; on_done(summary) once the run has returned.
CallbackTrace ==
    (IF Phase(pc) = "before" THEN << >> ELSE << on_scan_start(Len(files)) >>)
    \o Iterations(Len(results))
    \o (IF Len(results) < idx
        THEN << on_file_start(idx, Len(files), files[idx]) >> ELSE << >>)
    \o (IF Returned THEN << on_done(summary) >> ELSE << >>)

\* C17: in a run that passes validation and scanning and is not cancelled the
\* callbacks are invoked in this order: on_scan_start(N); for i = 1..N in
\* discovery order on_file_start(i, N, f_i), on_file_result(outcome of f_i),
\* on_progress(i, N); then on_done(summary). At every point the invocations so
\* far are the beginning of that sequence, and the returned results are the
\* outcomes of f_1..f_N in the order they were delivered.
C17_CallbackOrder ==
    (PassedScan /\ ~cancelled) =>
        /\ obs.events = CallbackTrace
        /\ \A k \in 1..Len(results) : results[k].input_path = files[k]
        /\ Returned =>
              /\ Len(results) = Len(files)
              /\ Len(obs.events) = 3 * Len(files) + 2

C17_Witness ==
    /\ Returned /\ PassedScan /\ ~cancelled /\ Len(files) = 2
    /\ obs.events[5] = on_file_start(2, 2, files[2])
    /\ obs.events[6] = on_file_result(results[2])
    /\ results[1].result_type = "SUCCESS" /\ results[2].result_type = "ERROR"

\* The callbacks of file i were invoked one after the other.
Delivered(i) ==
    \E k \in 1..Len(obs.events) :
        /\ k + 2 <= Len(obs.events)
        /\ obs.events[k] = on_file_start(i, Len(files), files[i])
        /\ obs.events[k + 1] = on_file_result(results[i])
        /\ obs.events[k + 2] = on_progress(i, Len(files))

\* C18: cancellation is observed at the top of a loop iteration only. The
\* loop is left as cancelled only with the token set and no file in hand; when
\* the token is first set while file i is processed, the run returns with the
\* outcome of file i recorded and delivered (on_file_start, on_file_result,
\* on_progress(i, N)) and with no later file started: it stops at the check of
\* iteration i + 1, as cancelled if there is a file i + 1.
C18_CancelAtLoopTop ==
    /\ cancelled =>
          /\ token
          /\ pc \in { "finalize", "done" }
          /\ idx = Len(results)
    /\ (Returned /\ obs.cancelAt.at = "during") =>
          /\ Len(results) = obs.cancelAt.n + 1
          /\ results[obs.cancelAt.n + 1].input_path = files[obs.cancelAt.n + 1]
          /\ Delivered(obs.cancelAt.n + 1)
          /\ summary.cancelled <=> obs.cancelAt.n + 1 < Len(files)

C18_Witness ==
    /\ Returned /\ obs.cancelAt.at = "during" /\ obs.cancelAt.n = 0
    /\ Len(files) = 2 /\ Len(results) = 1 /\ summary.cancelled
    /\ results[1].result_type = "SUCCESS"

WellFormed(r) ==
    r.result_type = "ERROR" =>
        /\ r.fix_hint \notin { None, "" }
        /\ r.error_category \in ErrorCategories

\* C19: every Error outcome, of validation, of scanning or of a scrubber,
\* carries a non-empty fix_hint and one of the six error categories: the
\* outcome a scrubber is returning, every outcome recorded, and every outcome
\* delivered to on_file_result.
C19_ErrorsCarryHint ==
    /\ WellFormed(pending)
    /\ \A i \in 1..Len(results) : WellFormed(results[i])
    /\ \A k \in 1..Len(obs.events) : WellFormed(obs.events[k].result)

C19_Witness ==
    /\ Len(results) = 2
    /\ results[1].result_type = "ERROR"
    /\ results[1].error_category = "OUTPUT_ERROR"
    /\ results[2].result_type = "ERROR"
    /\ results[2].error_category = "PROCESSING_ERROR"
    /\ results[2].fix_hint = "hint"

\* C20: when discover_files fails, scrub_path returns one Error outcome and
\* the summary {total 0, success 0, skipped 0, errors 1, cancelled false}; the
\* category is PermissionError for a permission error and InputError for any
\* other failure, an input that is neither a file nor a directory included.
\* No file is discovered or processed, and on_scan_start is never invoked.
C20_ScanShortCircuit ==
    run.kind \in { "noperm", "special" } =>
        /\ pc \in { "validate", "scan", "done" }
        /\ files = << >> /\ idx = 0 /\ obs.scrubCalls = 0
        /\ \A k \in 1..Len(obs.events) :
              obs.events[k].cb \notin { "on_scan_start", "on_file_start" }
        /\ Returned =>
              /\ Len(results) = 1
              /\ results[1].result_type = "ERROR"
              /\ results[1].error_category =
                    (IF run.kind = "noperm" THEN "PERMISSION_ERROR"
                     ELSE "INPUT_ERROR")
              /\ summary = [total |-> 0, success |-> 0, skipped |-> 0,
                            errors |-> 1, cancelled |-> FALSE]
              /\ obs.events = << on_file_result(results[1]), on_done(summary) >>

C20_Witness ==
    /\ Returned /\ run.kind = "noperm"
    /\ results[1].error_category = "PERMISSION_ERROR"
    /\ Len(obs.events) = 2 /\ obs.events[2].cb = "on_done"

\* The directories of the file in hand below the base input directory.
RelativeDir ==
    CHOOSE rel \in { SubSeq(files[idx].dir, k, Len(files[idx].dir)) :
                       k \in 1..(Len(files[idx].dir) + 1) } :
        base_input_dir(run) \o rel = files[idx].dir

\* C21: before collision handling get_output_path computes output_root /
\* (input path relative to the base input directory) when keep_structure is
\* true, and the parent directories of that path exist when it returns; it
\* computes output_root / (input file name) when keep_structure is false;
\* for a single-file input both modes give output_root / (file name).
\* Collision handling changes the stem only.
C21_TargetPath ==
    PathResolved =>
        /\ ResolvedTarget =
              P(IF run.keep_structure THEN run.output_dir \o RelativeDir
                ELSE run.output_dir,
                files[idx].stem, files[idx].ext)
        /\ run.keep_structure => Parents(ResolvedTarget.dir) \subseteq dirs
        /\ run.kind = "file" =>
              ResolvedTarget = P(run.output_dir, files[idx].stem, files[idx].ext)
        /\ outPath.dir = ResolvedTarget.dir /\ outPath.ext = ResolvedTarget.ext

C21_Witness ==
    /\ PathResolved /\ run.keep_structure /\ run.output_dir = <<"out">>
    /\ files[idx].dir = <<"in", "sub">>
    /\ ResolvedTarget = P(<<"out", "sub">>, "a", ".png")
    /\ <<"out", "sub">> \in dirs /\ <<"out", "sub">> \notin obs.dirsLoop

\* C22: every call of scrub_path returns a (results, summary) pair after at
\* most N loop iterations, whatever the filesystem does, a failure to create
\* the output root or a destination subdirectory included, provided each
\* scrubber call returns: the run is never left by an exception of
\* OutputManager(...) or of get_output_path, and it returns only after a
\* validation or scanning failure, after all N files, or on a cancellation
\* observed between two files.
C22_AlwaysReturns ==
    /\ pc = "raised" => raisedIn = "scrub"
    /\ idx <= Len(files)
    /\ Returned =>
          \/ ~PassedScan
          \/ Len(results) = Len(files)
          \/ summary.cancelled /\ idx = Len(results)

\* The invocations of on_done so far.
DoneCalls == { k \in 1..Len(obs.events) : obs.events[k].cb = "on_done" }

\* C23: in every run that returns, after a validation failure, a scanning
\* failure, a normal completion or a cancellation, on_done is invoked exactly
\* once, it is the last callback invoked, and the summary it receives is the
\* summary scrub_path returns; before the return on_done has not been invoked.
C23_DoneOnceLast ==
    IF Returned
    THEN /\ DoneCalls = { Len(obs.events) }
         /\ obs.events[Len(obs.events)].summary = summary
    ELSE DoneCalls = {}

C23_Witness ==
    /\ Returned /\ summary.cancelled /\ Len(results) = 1
    /\ Len(obs.events) = 5 /\ obs.events[5].cb = "on_done"
    /\ obs.events[5].summary.skipped = 1 /\ obs.events[5].summary.total = 2

\* The run is in the Processing loop, or has left it and not yet built the
\* summary.
Processing ==
    PassedScan /\ (Phase(pc) \in { "between", "during" } \/ pc = "finalize")

\* C24: at every point of the Processing loop the results are the outcomes of
\* the first discovered files, in order: results[i].input_path is the i-th
\* discovered file; a file is resolved and dispatched at most once, so at most
\* idx calls of get_output_path and of scrub have been made and the file in
\* hand is the one after the last recorded; and success + skipped + errors is
\* the number of recorded outcomes.
C24_ResultsPrefix ==
    Processing =>
        /\ Len(results) <= Len(files)
        /\ \A i \in 1..Len(results) : results[i].input_path = files[i]
        /\ idx \in { Len(results), Len(results) + 1 }
        /\ obs.resolveCalls <= idx /\ obs.resolveCalls >= Len(results)
        /\ obs.scrubCalls <= obs.resolveCalls
        /\ cnt.success + cnt.skipped + cnt.errors = Len(results)

C24_Witness ==
    /\ pc = "record" /\ idx = 2 /\ Len(results) = 1
    /\ results[1].result_type = "ERROR"
    /\ obs.resolveCalls = 2 /\ obs.scrubCalls = 2
    /\ cnt.errors = 1 /\ pending.result_type = "SKIP"

Successes == { i \in 1..Len(results) : results[i].result_type = "SUCCESS" }

\* C25: at the end of a run that is not a dry run, the output_path of every
\* Success outcome exists and holds the cleaned copy of that outcome's own
\* input, and no two Success outcomes share an output_path, with overwrite or
\* without, flat output and same-named files of different subdirectories
\* included.
C25_SuccessOutputs ==
    (Returned /\ ~run.dry_run) =>
        /\ \A i \in Successes :
              Content(fs, results[i].output_path) = Clean(results[i].input_path)
        /\ \A i, j \in Successes :
              i # j => results[i].output_path # results[j].output_path

\* C26: with overwrite=false no file that was under the output root before
\* the run is replaced, truncated or deleted: each such file holds what it
\* held when the loop began, and a scrubber that has moved its cleaned copy
\* into place has put it on a path that held no file when it was resolved.
C26_NoReplace ==
    ~run.overwrite =>
        /\ \A p \in DOMAIN obs.fsLoop :
              UnderOut(p) => Content(fs, p) = obs.fsLoop[p]
        /\ (pc \in { "cleanup", "record" } /\ pending.result_type = "SUCCESS")
              => obs.prevOut = Absent

\* The filesystem of a run that is not a dry run once its first k files are
\* done, when every scrub call succeeds and no exists() call raises: each
\* supported file's cleaned copy is at the path get_output_path gave it.
RECURSIVE RealFs(_)
RealFs(k) ==
    IF k = 0 THEN obs.fsLoop
    ELSE IF Provider(files[k]) = None THEN RealFs(k - 1)
    ELSE Put(RealFs(k - 1),
             get_output_path(RealFs(k - 1), run, files[k], base_input_dir(run), 0),
             Clean(files[k]))

\* The output_path that run uses for the k-th file.
RealPath(k) ==
    get_output_path(RealFs(k - 1), run, files[k], base_input_dir(run), 0)

\* The run in hand is such a run so far.
AllSucceeded ==
    /\ ~run.dry_run
    /\ \A i \in 1..Len(results) :
          \/ /\ results[i].result_type = "SUCCESS"
             /\ results[i].output_path = RealPath(i)
          \/ Provider(files[i]) = None

\* In such a run the path resolved for the file in hand is RealPath.
RealPathIsUsed ==
    (PathResolved /\ AllSucceeded /\ obs.existsFail = 0) => outPath = RealPath(idx)

\* C27: for the same inputs, options and initial contents of the output
\* directory, the output_path a dry run reports for a file is the output_path
\* the run that is not a dry run uses for it.
C27_DryRunPreview ==
    (run.dry_run /\ PathResolved /\ obs.existsFail = 0) => outPath = RealPath(idx)

\* The token was first set too late to be read: while the last discovered
\* file was being processed, or after its outcome was recorded, or in a run
\* that discovered no file.
CancelledTooLate ==
    /\ PassedScan /\ pc \notin { "validate", "scan" } /\ token
    /\ \/ Len(files) = 0
       \/ obs.cancelAt.at = "during" /\ obs.cancelAt.n + 1 = Len(files)
       \/ obs.cancelAt.at \in { "between", "after" }
             /\ obs.cancelAt.n = Len(files)

\* C28: when the token is first set while the last discovered file is being
\* processed or after it, or in a run that discovers no file, the
\* cancellation is never observed: cancelled stays false, and the run that
\* returns has summary.cancelled false, all N outcomes, and skipped equal to
\* the number of Skip outcomes.
C28_LateCancelUnseen ==
    CancelledTooLate =>
        /\ ~cancelled
        /\ Returned =>
              /\ ~summary.cancelled
              /\ Len(results) = Len(files)
              /\ summary.total = Len(files)
              /\ summary.skipped = SkipCount

C28_Witness ==
    /\ Returned /\ CancelledTooLate /\ Len(files) = 2
    /\ obs.cancelAt.at = "during" /\ obs.cancelAt.n = 1
    /\ SkipCount = 1 /\ summary.success = 1

\* The invocations of callback cb so far.
Calls(cb) == { k \in 1..Len(obs.events) : obs.events[k].cb = cb }

\* C29: however a cancel() of another thread interleaves with the loop, at
\* most one file is started after cancel() has returned (the one whose
\* iteration had read the token just before); every started file gets exactly
\* one recorded outcome: at any time the files started are the outcomes
\* recorded plus, at most, the file in hand, and at the return they are the
\* same in number; the token, once set, stays set; and the run whose loop
\* observed the cancellation ends with a summary given to on_done.
C29_ConcurrentCancel ==
    /\ obs.startsAfterCancel <= 1
    /\ token <=> obs.cancelAt.at # "never"
    /\ Cardinality(Calls("on_file_result")) = Len(results)
    /\ PassedScan =>
          /\ Cardinality(Calls("on_file_start")) = idx
          /\ idx \in { Len(results), Len(results) + 1 }
          /\ Returned => idx = Len(results)
    /\ cancelled =>
          /\ pc \in { "finalize", "done" }
          /\ Returned => summary.cancelled /\ Calls("on_done") # {}

C29_Witness ==
    /\ Returned /\ obs.startsAfterCancel = 1
    /\ obs.cancelAt.at = "during" /\ obs.cancelAt.n = 0
    /\ Len(files) = 2 /\ Len(results) = 1 /\ summary.cancelled
    /\ Cardinality(Calls("on_file_start")) = 1

\* The scrubbers that accept path p.
Accepting(p) == { j \in 1..Len(Scrubbers) : can_handle(Scrubbers[j], p) }

\* The outcome of scrub_file for a file no scrubber accepts.
IsUnsupportedSkip(r) ==
    r.reason \in { "Unsupported file type: " \o p.ext : p \in Tree }

\* C30: the allow-list of discovery is the union of the four scrubbers'
\* extension sets and these are pairwise disjoint, all compared in lower case;
\* so every file that discovery returns for a directory is accepted by exactly
\* one scrubber, and the Skip of an unsupported file type occurs for a
\* single-file input only.
C30_AllowListPartition ==
    /\ SUPPORTED_EXTENSIONS =
          ImageFormats \cup PDFFormats \cup OOXMLFormats \cup MediaFormats
    /\ ImageFormats \cap PDFFormats = {}
    /\ ImageFormats \cap OOXMLFormats = {}
    /\ ImageFormats \cap MediaFormats = {}
    /\ PDFFormats \cap OOXMLFormats = {}
    /\ PDFFormats \cap MediaFormats = {}
    /\ OOXMLFormats \cap MediaFormats = {}
    /\ run.kind = "dir" =>
          /\ \A i \in 1..Len(files) : Cardinality(Accepting(files[i])) = 1
          /\ ~IsUnsupportedSkip(pending)
          /\ \A i \in 1..Len(results) : ~IsUnsupportedSkip(results[i])

C30_Witness ==
    /\ Returned /\ run.kind = "dir" /\ ~run.dry_run
    /\ Exists(obs.fsLoop, P(<<"in">>, "n", ".txt"))
    /\ Len(files) = 1 /\ Accepting(files[1]) = { 4 }
    /\ Len(results) = 1 /\ results[1].result_type = "SUCCESS"

====
